---- MODULE Spec2Model ----
(***************************************************************************)
(* State-machine model of three units of the CRM front end:                *)
(*   - src/lib/mcp.ts               the memoised MCP client accessor       *)
(*   - src/components/CloudSync.tsx the floating cloud menu and its four   *)
(*                                  asynchronous handlers                  *)
(*   - src/unnamed/part_000         the AutomationEditor form              *)
(* One step of the model is one run-to-completion task of the JavaScript   *)
(* event loop: a user event, a timer callback, or the continuation of an   *)
(* async function after one of its awaits.                                 *)
(***************************************************************************)
EXTENDS Integers, Sequences, FiniteSets, TLC

\* ------------------------------------------------------------------ bounds
MaxRuns    == 2   \* handler invocations whose record is kept at one time
MaxCallers == 3   \* other callers of the exported getMcpClient
MaxClients == 3   \* Client objects constructed in one behaviour
MaxTimers  == 2   \* pending setTimeout callbacks
MaxActions == 3   \* actions listed in the editor's draft
MaxClock   == 1   \* readings of Date.now() after the module was loaded
MaxThousandths == 1100   \* largest set count of an exported job, in 1/1000
MaxJobs    == 6   \* jobs handed to the report

\* --------------------------------------------------------------- constants
DefaultDuration == 4000

NoClient == 0
Null     == "null"
Undefined == "undefined"

Runs      == 1 .. MaxRuns
Callers   == (MaxRuns + 1) .. (MaxRuns + MaxCallers)
CallSlots == 1 .. (MaxRuns + MaxCallers)

\* status texts of CloudSync.tsx
Connecting       == "Connecting to server..."
BackingCustomers == "Backing up customers..."
BackingJobs      == "Backing up jobs..."
BackupComplete   == "OK Backup complete!"
BackupFailed     == "X Backup failed. Check console."
PreparingSheets  == "Preparing data for Sheets..."
NoJobs           == "No jobs to export."
CreatingSheet    == "Creating Google Sheet..."
SheetsComplete   == "OK Export to Sheets complete!"
SheetsFailed     == "X Export failed. Check console."
GeneratingReport == "Generating report..."
CreatingDoc      == "Creating Google Doc..."
DocComplete      == "OK Report created!"
DocFailed        == "X Report creation failed."
EmailNotSet      == "Company email not set in settings."
GeneratingEmail  == "Generating email content..."
SendingEmail     == "Sending email..."
EmailComplete    == "OK Email sent!"
EmailFailed      == "X Failed to send email."

FailureMessages  == {BackupFailed, SheetsFailed, DocFailed, EmailFailed}
CompleteMessages == {BackupComplete, SheetsComplete, DocComplete, EmailComplete}

\* tool names
DriveCreateFile == "google_drive_create_file_from_text"
SheetsCreate    == "google_sheets_create_spreadsheet_from_json"
DocsCreate      == "google_docs_create_document_from_text"
GmailSend       == "gmail_send_email"

\* ------------------------------------------------------------------ inputs
PdfFields == {"estimatePdf", "materialOrderPdf", "invoicePdf"}

JobA == [estimateNumber |-> "E-1", customerId |-> "c1", status |-> "paid",
         estimatePdf |-> "blob", materialOrderPdf |-> "blob", invoicePdf |-> "blob"]
JobB == [estimateNumber |-> "E-2", customerId |-> "c9", status |-> "estimate",
         estimatePdf |-> "blob"]

CustA == [id |-> "c1", name |-> "Acme", address |-> "1 Main St"]

JobLists      == { <<>>, <<JobA>>, <<JobA, JobB>> }
CustomerLists == { <<>>, <<CustA>> }
CompanyEmails == { "", "owner@example.com" }

VARIABLES
    \* src/lib/mcp.ts
    mcpClient,     \* the module-level cache: NoClient or a client id
    nClients,      \* Client objects constructed so far (ids 1..nClients)
    connected,     \* ids of the clients whose connect() resolved
    calls,         \* per invocation of getMcpClient: its promise
    \* src/components/CloudSync.tsx
    customers, jobs, companyEmail,   \* props
    isOpen, status, activeAction,    \* useState cells
    timers,        \* pending setTimeout(() => setStatus(''), duration)
    runs,          \* per handler invocation: its position and its trace
    \* src/unnamed/part_000
    existingAutomation,   \* prop: an Automation or NoAutomation
    automation,           \* useState cell: the draft
    now,                  \* the reading of Date.now()
    mounted,              \* the editor is rendered by its parent
    onSaveCalls,          \* arguments of the onSave calls of the latest event
    onCancelCalls,        \* number of onCancel calls of the latest event
    prior,                \* how the editor's previous session ended
    \* inputs and results of the pure computations of CloudSync.tsx
    sheetJob, sheetRow,   \* one job and its row of dataForSheet
    reportJobs, reportRecent   \* a job list and its Recent Jobs section

mcpVars   == <<mcpClient, nClients, connected, calls>>
propVars  == <<customers, jobs, companyEmail>>
syncVars  == <<isOpen, status, activeAction, timers, runs>>
vars      == <<mcpClient, nClients, connected, calls,
               customers, jobs, companyEmail,
               isOpen, status, activeAction, timers, runs,
               existingAutomation, automation, now,
               mounted, onSaveCalls, onCancelCalls, prior,
               sheetJob, sheetRow, reportJobs, reportRecent>>
dataVars   == <<sheetJob, sheetRow, reportJobs, reportRecent>>
editorVars == <<existingAutomation, automation, now,
                mounted, onSaveCalls, onCancelCalls, prior>>
cloudVars == <<mcpClient, nClients, connected, calls,
               customers, jobs, companyEmail,
               isOpen, status, activeAction, timers, runs>>

NoCall == [st |-> "none", client |-> NoClient]
FreeRun == [op |-> Null, pc |-> "free", log |-> <<>>, lastStatus |-> "",
            rejected |-> FALSE, setActive |-> FALSE, acquired |-> FALSE,
            closedMenu |-> FALSE, accessorCalls |-> 0]

\* =========================================================== src/lib/mcp.ts
\* getMcpClient, lines 11-32: the synchronous part of one invocation c.
\* A set cache is returned at once (the promise is already resolved);
\* otherwise a new Client is constructed and its connect() is awaited.
getMcpClient(c) ==
    IF mcpClient # NoClient
    THEN /\ calls' = [calls EXCEPT ![c] = [st |-> "resolved", client |-> mcpClient]]
         /\ UNCHANGED <<mcpClient, nClients, connected>>
    ELSE /\ nClients < MaxClients
         /\ nClients' = nClients + 1
         /\ calls' = [calls EXCEPT ![c] = [st |-> "connecting", client |-> nClients + 1]]
         /\ UNCHANGED <<mcpClient, connected>>

\* lines 32-37: connect() resolved; the cache is overwritten with this
\* invocation's own client, which is what the invocation returns.
ConnectResolve(c) ==
    /\ calls[c].st = "connecting"
    /\ connected' = connected \cup {calls[c].client}
    /\ mcpClient' = calls[c].client
    /\ calls' = [calls EXCEPT ![c].st = "resolved"]
    /\ UNCHANGED nClients
    /\ UNCHANGED <<propVars, editorVars, dataVars, syncVars>>

\* mutant: the client is stored before its connect() has settled
ConnectRejectCaches(c) ==
    /\ calls[c].st = "connecting"
    /\ calls' = [calls EXCEPT ![c].st = "rejected"]
    /\ mcpClient' = calls[c].client
    /\ UNCHANGED <<nClients, connected>>
    /\ UNCHANGED <<propVars, editorVars, dataVars, syncVars>>

\* line 32: connect() rejected; the await throws and the promise rejects.
ConnectReject(c) ==
    /\ calls[c].st = "connecting"
    /\ calls' = [calls EXCEPT ![c].st = "rejected"]
    /\ UNCHANGED <<mcpClient, nClients, connected>>
    /\ UNCHANGED <<propVars, editorVars, dataVars, syncVars>>

\* Another module of the application calls the exported accessor.
ExternalCall(c) ==
    /\ c \in Callers
    /\ calls[c].st = "none"
    /\ getMcpClient(c)
    /\ UNCHANGED <<propVars, editorVars, dataVars, syncVars>>

\* That caller has consumed the settled promise.
ExternalDone(c) ==
    /\ c \in Callers
    /\ calls[c].st \in {"resolved", "rejected"}
    /\ calls' = [calls EXCEPT ![c] = NoCall]
    /\ UNCHANGED <<mcpClient, nClients, connected>>
    /\ UNCHANGED <<propVars, editorVars, dataVars, syncVars>>

\* ============================================= src/components/CloudSync.tsx
\* mutant: the buttons are never disabled
isLoadingNever == FALSE

\* line 19
isLoading == activeAction # Null

\* line 242 (disabled={isLoading}) under line 263 ({isOpen && ...}): a
\* click reaches an ActionButton's onClick only while the menu is rendered
\* and the button is enabled.
Clickable == isOpen /\ ~isLoading

\* The record slot a new handler invocation is traced in: the lowest one
\* whose previous invocation, if any, has returned.
Available(r) ==
    /\ runs[r].pc \in {"free", "done"}
    /\ \A q \in Runs : q < r => runs[q].pc \notin {"free", "done"}

\* lines 33-38: the number of timers one showStatus call schedules.
showStatusTimers(duration) == IF duration > 0 THEN 1 ELSE 0

\* mutant: only the first of the three properties is destructured away
StripEstimateOnly(job) == [k \in (DOMAIN job) \ {"estimatePdf"} |-> job[k]]

\* lines 60-63: the object rest pattern drops the three PDF properties.
StripPdf(job) == [k \in (DOMAIN job) \ PdfFields |-> job[k]]
jobsForBackup(js) == [i \in DOMAIN js |-> StripPdf(js[i])]

\* JSON.stringify of an array of plain objects (lines 49, 64, 113): own
\* properties are kept under their keys, undefined-valued ones are omitted.
JSONstringify(objs) ==
    [i \in DOMAIN objs |->
        [k \in {x \in DOMAIN objs[i] : objs[i][x] # Undefined} |-> objs[i][k]]]

ToolCall(name, title, content) ==
    [name |-> name, title |-> title, content |-> content, st |-> "pending"]

\* The first statements of every handler (lines 41-45, 86-89, 167-170,
\* 200-203): set the slot, show the persistent status, call the accessor.
Begin(r, op) ==
    /\ activeAction' = op
    /\ status' = Connecting
    /\ timers' = timers + showStatusTimers(0)
    /\ runs' = [runs EXCEPT ![r] = [FreeRun EXCEPT !.op = op, !.pc = "client",
                   !.lastStatus = Connecting, !.setActive = TRUE, !.acquired = TRUE,
                   !.accessorCalls = @ + 1]]
    /\ getMcpClient(r)
    /\ UNCHANGED <<isOpen, propVars, editorVars, dataVars>>

\* mutant: no finally block
FinallyOmitted == UNCHANGED activeAction

\* finally { setActiveAction(null) } (lines 80-82, 131-133, 190-192, 224-226)
Finally == activeAction' = Null

\* mutant: the catch block shows the completion status
CatchMessageComplete(op) ==
    CASE op = "backup" -> BackupComplete
      [] op = "sheets" -> SheetsComplete
      [] op = "docs"   -> DocComplete
      [] op = "email"  -> EmailComplete

\* catch blocks (lines 77-79, 128-130, 187-189, 221-223)
CatchMessage(op) ==
    CASE op = "backup" -> BackupFailed
      [] op = "sheets" -> SheetsFailed
      [] op = "docs"   -> DocFailed
      [] op = "email"  -> EmailFailed

\* mutant: the catch block closes the menu as the success path does
CatchClosesMenu(r) ==
    /\ runs[r].pc \notin {"free", "done"}
    /\ \/ /\ runs[r].pc = "client"
          /\ calls[r].st = "rejected"
          /\ runs' = [runs EXCEPT ![r].pc = "done", ![r].rejected = TRUE,
                         ![r].lastStatus = CatchMessage(runs[r].op)]
       \/ /\ runs[r].pc # "client"
          /\ runs' = [runs EXCEPT ![r].pc = "done", ![r].rejected = TRUE,
                         ![r].lastStatus = CatchMessage(runs[r].op),
                         ![r].log[Len(runs[r].log)].st = "rejected"]
    /\ status' = CatchMessage(runs[r].op)
    /\ timers' = timers + showStatusTimers(DefaultDuration)
    /\ isOpen' = FALSE
    /\ Finally
    /\ UNCHANGED <<propVars, editorVars, dataVars, mcpVars>>

\* The await the invocation is parked on rejects: catch, then finally.
Catch(r) ==
    /\ runs[r].pc \notin {"free", "done"}
    /\ \/ /\ runs[r].pc = "client"
          /\ calls[r].st = "rejected"
          /\ runs' = [runs EXCEPT ![r].pc = "done", ![r].rejected = TRUE,
                         ![r].lastStatus = CatchMessage(runs[r].op)]
       \/ /\ runs[r].pc # "client"
          /\ runs' = [runs EXCEPT ![r].pc = "done", ![r].rejected = TRUE,
                         ![r].lastStatus = CatchMessage(runs[r].op),
                         ![r].log[Len(runs[r].log)].st = "rejected"]
    /\ status' = CatchMessage(runs[r].op)
    /\ timers' = timers + showStatusTimers(DefaultDuration)
    /\ Finally
    /\ UNCHANGED <<isOpen, propVars, editorVars, dataVars, mcpVars>>

\* The last awaited tool call resolved: completion status, menu closed,
\* finally (lines 74-75, 126-127, 185-186, 219-220).
Complete(r, pc, message) ==
    /\ runs[r].pc = pc
    /\ runs' = [runs EXCEPT ![r].pc = "done", ![r].lastStatus = message,
                   ![r].closedMenu = TRUE,
                   ![r].log[Len(runs[r].log)].st = "resolved"]
    /\ status' = message
    /\ timers' = timers + showStatusTimers(DefaultDuration)
    /\ isOpen' = FALSE
    /\ Finally
    /\ UNCHANGED <<propVars, editorVars, dataVars, mcpVars>>

\* mutant: the tool call is issued a second time
IssueTwice(r, op, message, call, pc) ==
    /\ runs[r].op = op
    /\ runs[r].pc = "client"
    /\ calls[r].st = "resolved"
    /\ runs' = [runs EXCEPT ![r].pc = pc, ![r].lastStatus = message,
                   ![r].log = Append(Append(@, call), call)]
    /\ status' = message
    /\ timers' = timers + showStatusTimers(0)
    /\ UNCHANGED <<isOpen, activeAction, propVars, editorVars, dataVars, mcpVars>>

\* The await on getMcpClient() resolved and the handler goes on to issue
\* its (first) tool call, showing `message` while it is pending.
Issue(r, op, message, call, pc) ==
    /\ runs[r].op = op
    /\ runs[r].pc = "client"
    /\ calls[r].st = "resolved"
    /\ runs' = [runs EXCEPT ![r].pc = pc, ![r].lastStatus = message,
                   ![r].log = Append(@, call)]
    /\ status' = message
    /\ timers' = timers + showStatusTimers(0)
    /\ UNCHANGED <<isOpen, activeAction, propVars, editorVars, dataVars, mcpVars>>

\* ---- handleBackupToDrive, lines 40-83
handleBackupToDrive(r) ==
    /\ Clickable
    /\ Available(r)
    /\ timers < MaxTimers
    /\ Begin(r, "backup")

BackupCustomers(r) ==
    Issue(r, "backup", BackingCustomers,
          ToolCall(DriveCreateFile, "customers-backup", JSONstringify(customers)),
          "customers")

BackupJobs(r) ==
    /\ runs[r].pc = "customers"
    /\ runs' = [runs EXCEPT ![r].pc = "jobs", ![r].lastStatus = BackingJobs,
                   ![r].log = Append([@ EXCEPT ![1].st = "resolved"],
                       ToolCall(DriveCreateFile, "jobs-backup",
                                JSONstringify(jobsForBackup(jobs))))]
    /\ status' = BackingJobs
    /\ timers' = timers + showStatusTimers(0)
    /\ UNCHANGED <<isOpen, activeAction, propVars, editorVars, dataVars, mcpVars>>

BackupDone(r) == Complete(r, "jobs", BackupComplete)

\* ---- handleExportToSheets, lines 85-134
handleExportToSheets(r) ==
    /\ Clickable
    /\ Available(r)
    /\ timers < MaxTimers
    /\ Begin(r, "sheets")

\* lines 92-105, reduced to the columns that are looked up by key
dataForSheet(js, cs) ==
    [i \in DOMAIN js |->
        [EstimateNumber |-> js[i].estimateNumber,
         CustomerName |->
            IF \E n \in DOMAIN cs : cs[n].id = js[i].customerId
            THEN cs[CHOOSE n \in DOMAIN cs :
                       /\ cs[n].id = js[i].customerId
                       /\ \A m \in DOMAIN cs : cs[m].id = js[i].customerId => n <= m].name
            ELSE "N/A",
         Status |-> js[i].status]]

\* lines 89-111: after the client is there, an empty projection shows the
\* timed "no jobs" status, clears the slot and returns (finally runs too).
SheetsNoJobs(r) ==
    /\ runs[r].op = "sheets"
    /\ runs[r].pc = "client"
    /\ calls[r].st = "resolved"
    /\ Len(dataForSheet(jobs, customers)) = 0
    /\ runs' = [runs EXCEPT ![r].pc = "done", ![r].lastStatus = NoJobs]
    /\ status' = NoJobs
    /\ timers' = timers + showStatusTimers(0) + showStatusTimers(DefaultDuration)
    /\ Finally
    /\ UNCHANGED <<isOpen, propVars, editorVars, dataVars, mcpVars>>

SheetsCreateCall(r) ==
    /\ Len(dataForSheet(jobs, customers)) # 0
    /\ Issue(r, "sheets", CreatingSheet,
             ToolCall(SheetsCreate, "Jobs-Export",
                      JSONstringify(dataForSheet(jobs, customers))),
             "sheet")

SheetsDone(r) == Complete(r, "sheet", SheetsComplete)

\* ---- the numeric columns of one row of dataForSheet, lines 92-105
\* A set count is entered as a decimal with three fraction digits and is
\* written here as its number of thousandths d.  The value the code holds
\* is the IEEE-754 double nearest to d/1000, that is M / 2^k with
\* 2^52 <= M < 2^53 and M the integer nearest to d * 2^k / 1000.
RECURSIVE Pow2Mod(_, _)
Pow2Mod(k, m) == IF k = 0 THEN 1 % m ELSE (2 * Pow2Mod(k - 1, m)) % m

\* e >= 0 with 2^e <= d/1000 < 2^(e+1), for d >= 1000
RECURSIVE Halvings(_)
Halvings(d) == IF d < 2000 THEN 0 ELSE 1 + Halvings(d \div 2)

\* n >= 0 with 2^(-n) <= d/1000 < 2^(1-n), for 0 < d <= 1000
RECURSIVE Doublings(_)
Doublings(d) == IF d >= 1000 THEN 0 ELSE 1 + Doublings(2 * d)

\* the k of the double nearest to d/1000
Scale(d) == IF d >= 1000 THEN 52 - Halvings(d) ELSE 52 + Doublings(d)

\* (d * 2^k) mod 1000: zero when d/1000 is a double, below 500 when the
\* nearest double lies under d/1000, above 500 when it lies over it
DoubleResidue(d) == ((d % 1000) * Pow2Mod(Scale(d), 1000)) % 1000

\* Number.prototype.toFixed(2), lines 102-103: the n with n/100 nearest to
\* the double, the larger n when two are equally near, printed with two
\* fraction digits.  Only a d ending in 5 lies within a double's error of
\* a halfway point, and there the side the double fell on decides.
toFixed2(d) ==
    LET n == IF d = 0 THEN 0
             ELSE IF d % 10 # 5 THEN (d + 5) \div 10
             ELSE IF DoubleResidue(d) = 0 THEN (d \div 10) + 1
             ELSE IF DoubleResidue(d) < 500 THEN d \div 10
             ELSE (d \div 10) + 1
    IN [int |-> n \div 100, frac |-> n % 100]

\* Number(string), lines 102-103, as a number of hundredths
Number(s) == (s.int * 100) + s.frac

\* line 93 with lines 96-97: find() gives the first customer with the
\* job's customerId, and a missing customer or an empty name gives 'N/A'
customerName(job, cs) ==
    LET found == {n \in DOMAIN cs : cs[n].id = job.customerId}
        first == CHOOSE n \in found : \A m \in found : n <= m
    IN IF found = {} THEN "N/A"
       ELSE IF cs[first].name = "" THEN "N/A" ELSE cs[first].name

\* lines 94-104, the four columns with a computed value
sheetRowOf(job, cs) ==
    [CustomerName   |-> customerName(job, cs),
     QuoteAmount    |-> job.finalQuote,
     OpenCellSets   |-> Number(toFixed2(job.ocSets)),
     ClosedCellSets |-> Number(toFixed2(job.ccSets))]

\* line 92: jobs.map applied to one job
MapJob ==
    /\ sheetRow = <<>>
    /\ sheetRow' = << sheetRowOf(sheetJob, customers) >>
    /\ UNCHANGED <<sheetJob, reportJobs, reportRecent, cloudVars, editorVars>>

\* ---- generateReportContent, lines 136-164: the Recent Jobs lines
RecentJobs(js) == SubSeq(js, 1, IF Len(js) < 5 THEN Len(js) ELSE 5)

\* lines 158-162: the section is built from the job list of the props
ListRecent ==
    /\ reportRecent = <<>>
    /\ reportRecent' = << RecentJobs(reportJobs) >>
    /\ UNCHANGED <<sheetJob, sheetRow, reportJobs, cloudVars, editorVars>>

\* ---- handleCreateDocReport, lines 166-193
handleCreateDocReport(r) ==
    /\ Clickable
    /\ Available(r)
    /\ timers < MaxTimers
    /\ Begin(r, "docs")

DocsCreateCall(r) ==
    Issue(r, "docs", CreatingDoc,
          ToolCall(DocsCreate, "Business-Summary-Report", RecentJobs(jobs)),
          "doc")

DocsDone(r) == Complete(r, "doc", DocComplete)

\* ---- handleEmailReport, lines 195-227
\* mutant: the guard is left out
EmailMissingNever == FALSE

\* line 196
EmailMissing == companyEmail = ""

handleEmailReport(r) ==
    /\ Clickable
    /\ Available(r)
    /\ timers < MaxTimers
    /\ IF EmailMissing
       THEN /\ status' = EmailNotSet
            /\ timers' = timers + showStatusTimers(DefaultDuration)
            /\ runs' = [runs EXCEPT ![r] = [FreeRun EXCEPT !.op = "email",
                           !.pc = "done", !.lastStatus = EmailNotSet]]
            /\ UNCHANGED <<isOpen, activeAction, propVars, editorVars, dataVars, mcpVars>>
       ELSE Begin(r, "email")

EmailSend(r) ==
    Issue(r, "email", SendingEmail,
          ToolCall(GmailSend, companyEmail, RecentJobs(jobs)),
          "mail")

EmailDone(r) == Complete(r, "mail", EmailComplete)

\* ---- the menu and the timers
\* line 281
ToggleMenu ==
    /\ isOpen' = ~isOpen
    /\ UNCHANGED <<status, activeAction, timers, runs, propVars, editorVars, dataVars, mcpVars>>

\* lines 22-26: a mousedown outside the menu
handleClickOutside ==
    /\ isOpen' = FALSE
    /\ UNCHANGED <<status, activeAction, timers, runs, propVars, editorVars, dataVars, mcpVars>>

\* mutant: the callback leaves the status on display
TimerFireKeepsStatus ==
    /\ timers > 0
    /\ timers' = timers - 1
    /\ UNCHANGED <<status, isOpen, activeAction, runs, propVars, editorVars, dataVars, mcpVars>>

\* line 36: a pending timer fires
TimerFire ==
    /\ timers > 0
    /\ timers' = timers - 1
    /\ status' = ""
    /\ UNCHANGED <<isOpen, activeAction, runs, propVars, editorVars, dataVars, mcpVars>>

\* ================================================== src/unnamed/part_000
\* Date.now() when the module was evaluated (line 17)
LoadTime == 1

EmptyConfig == <<>>

\* an object literal with one computed key spread over obj: {...obj, [k]: v}
Spread(obj, key, value) ==
    [k \in (DOMAIN obj) \cup {key} |-> IF k = key THEN value ELSE obj[k]]

\* lines 12-22
EMPTY_AUTOMATION ==
    [name |-> "", trigger_type |-> "new_customer", trigger_config |-> EmptyConfig,
     actions |-> << [id |-> LoadTime, action_type |-> "create_task",
                     action_config |-> EmptyConfig] >>,
     is_enabled |-> TRUE]

\* line 24
JOB_STATUSES == {"estimate", "sold", "invoiced", "paid"}

\* lines 168-169 and 197-201: the options of the two selects
TriggerTypes == {"new_customer", "job_status_updated"}
ActionTypes  == {"create_task", "send_email", "update_inventory",
                 "add_to_schedule", "webhook"}

\* lines 102-149: the inputs renderActionConfig shows for an action type
renderActionConfig(type) ==
    CASE type = "webhook"     -> {"url"}
      [] type = "create_task" -> {"task_title", "task_description"}
      [] type = "send_email"  -> {"email_subject", "email_body"}
      [] OTHER                -> {}

\* existingAutomation = null
NoAutomation == [absent |-> TRUE]

\* stored automations the editor is opened with; their action ids were
\* generated before this module was loaded
StoredA ==
    [id |-> 7, name |-> "Follow up", trigger_type |-> "job_status_updated",
     trigger_config |-> [to_status |-> "sold"],
     actions |-> << [id |-> 0, action_type |-> "send_email",
                     action_config |-> [email_subject |-> "Hi"]] >>,
     is_enabled |-> FALSE]

ExistingInputs == {NoAutomation, StoredA}

\* values typed or picked in the form
NameInputs     == {"", "Nightly"}
StatusInputs   == {"sold"}
TypeInputs     == {"create_task", "webhook"}
TextInputs     == {"t"}

\* an event that calls neither callback
NoCallbacks == onSaveCalls' = <<>> /\ onCancelCalls' = 0

ActionIds == {automation.actions[i].id : i \in DOMAIN automation.actions}

\* Array.prototype.filter
RECURSIVE FilterSeq(_, _)
FilterSeq(seq, dropId) ==
    IF seq = <<>> THEN <<>>
    ELSE IF Head(seq).id # dropId
         THEN <<Head(seq)>> \o FilterSeq(Tail(seq), dropId)
         ELSE FilterSeq(Tail(seq), dropId)

\* mutant: the new draft is rebuilt without the id
handleFieldChangeDropsId(field, value) ==
    /\ mounted
    /\ automation' = [k \in ((DOMAIN automation) \cup {field}) \ {"id"} |->
                         IF k = field THEN value ELSE automation[k]]
    /\ NoCallbacks
    /\ UNCHANGED <<existingAutomation, now, mounted, prior, cloudVars, dataVars>>

\* lines 33-35
handleFieldChange(field, value) ==
    /\ mounted
    /\ automation' = Spread(automation, field, value)
    /\ NoCallbacks
    /\ UNCHANGED <<existingAutomation, now, mounted, prior, cloudVars, dataVars>>

\* mutant: the trigger's condition is dropped with the trigger it belonged to
onTriggerChangeClearsConfig(value) ==
    /\ mounted
    /\ automation' = Spread(Spread(automation, "trigger_type", value),
                            "trigger_config", EmptyConfig)
    /\ NoCallbacks
    /\ UNCHANGED <<existingAutomation, now, mounted, prior, cloudVars, dataVars>>

\* line 167: the onChange of the trigger select
onTriggerChange(value) == handleFieldChange("trigger_type", value)

\* lines 37-42, offered by the select of lines 172-180
handleConfigChange(field, value) ==
    /\ mounted
    /\ automation.trigger_type = "job_status_updated"
    /\ automation' = Spread(automation, "trigger_config",
                            Spread(automation.trigger_config, field, value))
    /\ NoCallbacks
    /\ UNCHANGED <<existingAutomation, now, mounted, prior, cloudVars, dataVars>>

\* mutant: the action's config survives the change of type
handleActionChangeKeepsConfig(actionId, value) ==
    /\ mounted
    /\ actionId \in ActionIds
    /\ automation' = Spread(automation, "actions",
          [i \in DOMAIN automation.actions |->
              IF automation.actions[i].id = actionId
              THEN Spread(automation.actions[i], "action_type", value)
              ELSE automation.actions[i]])
    /\ NoCallbacks
    /\ UNCHANGED <<existingAutomation, now, mounted, prior, cloudVars, dataVars>>

\* lines 44-54
handleActionChange(actionId, value) ==
    /\ mounted
    /\ actionId \in ActionIds
    /\ automation' = Spread(automation, "actions",
          [i \in DOMAIN automation.actions |->
              IF automation.actions[i].id = actionId
              THEN [id |-> automation.actions[i].id, action_type |-> value,
                    action_config |-> EmptyConfig]
              ELSE automation.actions[i]])
    /\ NoCallbacks
    /\ UNCHANGED <<existingAutomation, now, mounted, prior, cloudVars, dataVars>>

\* mutant: the id test is left out of the map callback
handleActionConfigChangeAll(actionId, configField, value) ==
    /\ mounted
    /\ actionId \in ActionIds
    /\ \E i \in DOMAIN automation.actions :
          /\ automation.actions[i].id = actionId
          /\ configField \in renderActionConfig(automation.actions[i].action_type)
    /\ automation' = Spread(automation, "actions",
          [i \in DOMAIN automation.actions |->
              Spread(automation.actions[i], "action_config",
                     Spread(automation.actions[i].action_config, configField, value))])
    /\ NoCallbacks
    /\ UNCHANGED <<existingAutomation, now, mounted, prior, cloudVars, dataVars>>

\* lines 56-72, offered by the inputs of renderActionConfig
handleActionConfigChange(actionId, configField, value) ==
    /\ mounted
    /\ actionId \in ActionIds
    /\ \E i \in DOMAIN automation.actions :
          /\ automation.actions[i].id = actionId
          /\ configField \in renderActionConfig(automation.actions[i].action_type)
    /\ automation' = Spread(automation, "actions",
          [i \in DOMAIN automation.actions |->
              IF automation.actions[i].id = actionId
              THEN Spread(automation.actions[i], "action_config",
                          Spread(automation.actions[i].action_config, configField, value))
              ELSE automation.actions[i]])
    /\ NoCallbacks
    /\ UNCHANGED <<existingAutomation, now, mounted, prior, cloudVars, dataVars>>

\* lines 75-79: the id of a new action is the clock reading
newActionId == now

\* lines 74-84
addAction ==
    /\ mounted
    /\ Len(automation.actions) < MaxActions
    /\ automation' = Spread(automation, "actions",
          Append(automation.actions,
                 [id |-> newActionId, action_type |-> "create_task",
                  action_config |-> EmptyConfig]))
    /\ NoCallbacks
    /\ UNCHANGED <<existingAutomation, now, mounted, prior, cloudVars, dataVars>>

\* line 190: the remove button is rendered only while more than one action
\* is listed
removeOffered == Len(automation.actions) > 1

\* lines 86-91
removeAction(actionId) ==
    /\ mounted
    /\ removeOffered
    /\ actionId \in ActionIds
    /\ automation' = Spread(automation, "actions",
                            FilterSeq(automation.actions, actionId))
    /\ NoCallbacks
    /\ UNCHANGED <<existingAutomation, now, mounted, prior, cloudVars, dataVars>>

\* the first reading the editor can take: it is mounted after the module
\* was loaded
FirstReading == LoadTime + 1

\* ids an event can name
IdInputs == 0 .. (FirstReading + MaxClock)

\* the millisecond clock advances between two events
Tick ==
    /\ now < FirstReading + MaxClock
    /\ now' = now + 1
    /\ UNCHANGED <<existingAutomation, automation, mounted, prior,
                   onSaveCalls, onCancelCalls, cloudVars, dataVars>>

\* the inputs marked required (lines 108, 116, 130, 160) are filled in, so
\* the browser dispatches the form's submit event
RequiredFilled(action) ==
    LET need == CASE action.action_type = "webhook"     -> {"url"}
                  [] action.action_type = "create_task" -> {"task_title"}
                  [] action.action_type = "send_email"  -> {"email_subject"}
                  [] OTHER                              -> {}
    IN  \A f \in need : /\ f \in DOMAIN action.action_config
                        /\ action.action_config[f] # ""

FormValid ==
    /\ automation.name # ""
    /\ \A i \in DOMAIN automation.actions : RequiredFilled(automation.actions[i])

\* mutant: the draft is reset once it has been handed over
handleSubmitResets ==
    /\ mounted
    /\ FormValid
    /\ onSaveCalls' = <<automation>>
    /\ onCancelCalls' = 0
    /\ automation' = EMPTY_AUTOMATION
    /\ UNCHANGED <<existingAutomation, now, mounted, prior, cloudVars, dataVars>>

\* lines 93-96
handleSubmit ==
    /\ mounted
    /\ FormValid
    /\ onSaveCalls' = <<automation>>
    /\ onCancelCalls' = 0
    /\ UNCHANGED <<existingAutomation, automation, now, mounted, prior,
                   cloudVars, dataVars>>

\* lines 152, 154, 219: the overlay, the close button and Cancel call onCancel
handleCancel ==
    /\ mounted
    /\ onCancelCalls' = 1
    /\ onSaveCalls' = <<>>
    /\ UNCHANGED <<existingAutomation, automation, now, mounted, prior,
                   cloudVars, dataVars>>

\* mutant: the draft of the previous session is kept
draftKept(existing) == automation

\* lines 27 and 30: existingAutomation || EMPTY_AUTOMATION
draftFor(existing) ==
    IF existing = NoAutomation THEN EMPTY_AUTOMATION ELSE existing

\* what the session that ends leaves behind: whether it was opened with no
\* automation and its draft holds entered values
SessionEnd ==
    IF existingAutomation = NoAutomation /\ automation # EMPTY_AUTOMATION
    THEN "new-edited" ELSE "other"

\* lines 26-27: the parent renders the editor; useState takes its initial value
Mount(existing) ==
    /\ ~mounted
    /\ mounted' = TRUE
    /\ existingAutomation' = existing
    /\ automation' = draftFor(existing)
    /\ NoCallbacks
    /\ UNCHANGED <<now, prior, cloudVars, dataVars>>

\* lines 29-31: the parent passes another automation while the editor is
\* rendered; the effect replaces the draft
useEffectReset(existing) ==
    /\ mounted
    /\ existing # existingAutomation
    /\ existingAutomation' = existing
    /\ automation' = draftFor(existing)
    /\ prior' = SessionEnd
    /\ NoCallbacks
    /\ UNCHANGED <<now, mounted, cloudVars, dataVars>>

\* the parent answers onSave or onCancel by no longer rendering the editor;
\* the component's state cell is dropped with it
ParentClose ==
    /\ mounted
    /\ (onSaveCalls # <<>> \/ onCancelCalls > 0)
    /\ mounted' = FALSE
    /\ prior' = SessionEnd
    /\ NoCallbacks
    /\ UNCHANGED <<existingAutomation, automation, now, cloudVars, dataVars>>

\* lines 26-27: the editor is mounted with its prop
InitEditor ==
    /\ existingAutomation \in ExistingInputs
    /\ automation = IF existingAutomation = NoAutomation THEN EMPTY_AUTOMATION
                    ELSE existingAutomation
    /\ now = FirstReading
    /\ mounted = TRUE
    /\ onSaveCalls = <<>>
    /\ onCancelCalls = 0
    /\ prior = "other"

InitEditorNew ==
    /\ existingAutomation = NoAutomation
    /\ automation = EMPTY_AUTOMATION
    /\ now = FirstReading
    /\ mounted = TRUE
    /\ onSaveCalls = <<>>
    /\ onCancelCalls = 0
    /\ prior = "other"

\* the pure computations are not running
InitData ==
    /\ sheetJob = <<>>
    /\ sheetRow = <<>>
    /\ reportJobs = <<>>
    /\ reportRecent = <<>>

InitMcp ==
    /\ mcpClient = NoClient
    /\ nClients = 0
    /\ connected = {}
    /\ calls = [c \in CallSlots |-> NoCall]

InitSync ==
    /\ customers \in CustomerLists
    /\ jobs \in JobLists
    /\ companyEmail \in CompanyEmails
    /\ isOpen = FALSE
    /\ status = ""
    /\ activeAction = Null
    /\ timers = 0
    /\ runs = [r \in Runs |-> FreeRun]

InitSyncEmpty ==
    /\ customers = <<>>
    /\ jobs = <<>>
    /\ companyEmail = ""
    /\ isOpen = FALSE
    /\ status = ""
    /\ activeAction = Null
    /\ timers = 0
    /\ runs = [r \in Runs |-> FreeRun]

Init == InitMcp /\ InitSync /\ InitEditorNew /\ InitData

Handler(r) ==
    \/ handleBackupToDrive(r)
    \/ BackupCustomers(r)
    \/ BackupJobs(r)
    \/ BackupDone(r)
    \/ handleExportToSheets(r)
    \/ SheetsNoJobs(r)
    \/ SheetsCreateCall(r)
    \/ SheetsDone(r)
    \/ handleCreateDocReport(r)
    \/ DocsCreateCall(r)
    \/ DocsDone(r)
    \/ handleEmailReport(r)
    \/ EmailSend(r)
    \/ EmailDone(r)
    \/ Catch(r)

Next ==
    \/ ToggleMenu
    \/ handleClickOutside
    \/ TimerFire
    \/ \E r \in Runs : Handler(r)
    \/ \E r \in Runs : ConnectResolve(r)
    \/ \E r \in Runs : ConnectReject(r)

Spec == Init /\ [][Next]_vars

\* ---- the accessor under arbitrary callers
InitMcpCallers == InitMcp /\ InitSyncEmpty /\ InitEditorNew /\ InitData

NextMcp ==
    \/ \E c \in Callers : ExternalCall(c)
    \/ \E c \in Callers : ExternalDone(c)
    \/ \E c \in Callers : ConnectResolve(c)
    \/ \E c \in Callers : ConnectReject(c)

SpecMcp == InitMcpCallers /\ [][NextMcp]_vars

\* ---- the editor
InitEdit == InitMcp /\ InitSyncEmpty /\ InitEditor /\ InitData

NextEditor ==
    \/ \E v \in NameInputs : handleFieldChange("name", v)
    \/ \E v \in TriggerTypes : onTriggerChange(v)
    \/ \E v \in BOOLEAN : handleFieldChange("is_enabled", v)
    \/ \E v \in StatusInputs : handleConfigChange("to_status", v)
    \/ \E a \in IdInputs, v \in TypeInputs : handleActionChange(a, v)
    \/ \E a \in IdInputs, v \in TextInputs :
          \E f \in {"url", "task_title", "email_subject"} :
             handleActionConfigChange(a, f, v)
    \/ addAction
    \/ \E a \in IdInputs : removeAction(a)
    \/ Tick

SpecEditor == InitEdit /\ [][NextEditor]_vars

\* ---- the editor over several sessions, with its two callbacks
NextSessions ==
    \/ \E v \in NameInputs : handleFieldChange("name", v)
    \/ \E v \in TriggerTypes : onTriggerChange(v)
    \/ \E v \in BOOLEAN : handleFieldChange("is_enabled", v)
    \/ \E v \in StatusInputs : handleConfigChange("to_status", v)
    \/ \E a \in IdInputs, v \in TypeInputs : handleActionChange(a, v)
    \/ \E a \in IdInputs, v \in TextInputs :
          \E f \in {"url", "task_title", "email_subject"} :
             handleActionConfigChange(a, f, v)
    \/ addAction
    \/ \E a \in IdInputs : removeAction(a)
    \/ Tick
    \/ handleSubmit
    \/ handleCancel
    \/ ParentClose
    \/ \E e \in ExistingInputs : Mount(e)
    \/ \E e \in ExistingInputs : useEffectReset(e)

SpecSessions == InitEdit /\ [][NextSessions]_vars

\* ---- one row of the Sheets export, over the set counts a job can carry
SheetJobs ==
    [customerId : {"c1", "c9"}, ocSets : 0 .. MaxThousandths,
     ccSets : {125, 250}, finalQuote : {500}]

InitSheets ==
    /\ InitMcp
    /\ InitEditorNew
    /\ customers \in CustomerLists
    /\ jobs = <<>>
    /\ companyEmail = ""
    /\ isOpen = FALSE
    /\ status = ""
    /\ activeAction = Null
    /\ timers = 0
    /\ runs = [r \in Runs |-> FreeRun]
    /\ sheetJob \in SheetJobs
    /\ sheetRow = <<>>
    /\ reportJobs = <<>>
    /\ reportRecent = <<>>

SpecSheets == InitSheets /\ [][MapJob]_vars

\* ---- the Recent Jobs section, over every ordering of the job list
RECURSIVE Orderings(_)
Orderings(S) ==
    IF S = {} THEN { <<>> }
    ELSE UNION { { <<x>> \o t : t \in Orderings(S \ {x}) } : x \in S }

\* job lists of up to MaxJobs jobs with distinct creation timestamps
ReportJobLists ==
    UNION { { [i \in DOMAIN o |-> [createdAt |-> o[i]]] : o \in Orderings(1 .. n) }
            : n \in 0 .. MaxJobs }

InitReport ==
    /\ InitMcp
    /\ InitSyncEmpty
    /\ InitEditorNew
    /\ sheetJob = <<>>
    /\ sheetRow = <<>>
    /\ reportJobs \in ReportJobLists
    /\ reportRecent = <<>>

SpecReport == InitReport /\ [][ListRecent]_vars

\* ---- CloudSync under the scheduling of the event loop: a settled promise's
\* continuation is run, and every connect and tool call settles.
Settle(r) ==
    \/ ConnectResolve(r)
    \/ ConnectReject(r)
    \/ BackupCustomers(r)
    \/ BackupJobs(r)
    \/ BackupDone(r)
    \/ SheetsNoJobs(r)
    \/ SheetsCreateCall(r)
    \/ SheetsDone(r)
    \/ DocsCreateCall(r)
    \/ DocsDone(r)
    \/ EmailSend(r)
    \/ EmailDone(r)
    \/ Catch(r)

FairSpec == Spec /\ \A r \in Runs : WF_vars(Settle(r))

\* ---- and a scheduled timeout callback is run
FairSpecTimers == FairSpec /\ WF_vars(TimerFire)

\* ================================================================== claims
InFlight(r) == runs[r].pc \notin {"free", "done"}

\* C1: at most one of the four operations is in flight at any time, and the
\* one in flight is the one named by activeAction; with activeAction null
\* none is in flight, so none was started while the slot was taken.
C1_OneInFlight ==
    /\ Cardinality({r \in Runs : InFlight(r)}) <= 1
    /\ \A r \in Runs : InFlight(r) => activeAction = runs[r].op
    /\ activeAction = Null => \A r \in Runs : ~InFlight(r)

C1_Witness ==
    /\ isOpen
    /\ runs[1].pc = "jobs"
    /\ activeAction = "backup"

\* C2: whenever a handler finishes after client acquisition or a tool call
\* rejected, activeAction is null and the last status it set, which is the
\* one shown, is a failure message.
C2_RejectEndsIdleFailed ==
    [][\A r \in Runs :
          (runs[r].pc # "done" /\ runs'[r].pc = "done" /\ runs'[r].rejected)
          => /\ activeAction' = Null
             /\ runs'[r].lastStatus \in FailureMessages
             /\ status' = runs'[r].lastStatus]_vars

C2_Witness ==
    \E r \in Runs :
        /\ runs[r].op = "backup"
        /\ runs[r].pc = "done"
        /\ runs[r].rejected
        /\ Len(runs[r].log) = 2
        /\ activeAction = Null

\* C3: every operation in flight eventually leaves the active-action slot
\* null, given that every connect and tool call settles.
C3_EventuallyIdle ==
    \A r \in Runs : InFlight(r) ~> (activeAction = Null /\ ~InFlight(r))

C3_Witness ==
    \E r \in Runs :
        /\ runs[r].op = "docs"
        /\ runs[r].pc = "doc"
        /\ activeAction = "docs"

\* C4: a backup issues only file-creation calls, the customers file first
\* and the jobs file only once the customers call has resolved; a backup
\* that finished without a rejection issued exactly these two; no job of
\* the jobs payload carries one of the three PDF properties.
C4_BackupTwoCalls ==
    \A r \in Runs : runs[r].op = "backup" =>
        LET log == runs[r].log IN
        /\ Len(log) <= 2
        /\ \A i \in DOMAIN log : log[i].name = DriveCreateFile
        /\ Len(log) >= 1 => log[1].title = "customers-backup"
        /\ Len(log) = 2 =>
              /\ log[2].title = "jobs-backup"
              /\ log[1].st = "resolved"
              /\ Len(log[2].content) = Len(jobs)
              /\ \A i \in DOMAIN log[2].content :
                    (DOMAIN log[2].content[i]) \cap PdfFields = {}
        /\ (runs[r].pc = "done" /\ ~runs[r].rejected) => Len(log) = 2

C4_Witness ==
    \E r \in Runs :
        /\ runs[r].op = "backup"
        /\ runs[r].pc = "done"
        /\ ~runs[r].rejected
        /\ jobs = <<JobA, JobB>>
        /\ Len(runs[r].log) = 2

\* C5: every Export-to-Sheets run with an empty job list ends with the
\* "No jobs to export." status, activeAction null and no tool call issued.
C5_EmptyExportShowsNoJobs ==
    \A r \in Runs :
        (runs[r].op = "sheets" /\ runs[r].pc = "done" /\ jobs = <<>>)
        => /\ runs[r].lastStatus = NoJobs
           /\ runs[r].log = <<>>
           /\ activeAction = Null

\* C6: an Export-to-Sheets run with an empty job list neither acquires or
\* connects the shared client nor issues any call.
C6_EmptyExportNoRemote ==
    \A r \in Runs :
        (runs[r].op = "sheets" /\ jobs = <<>>)
        => /\ ~runs[r].acquired
           /\ calls[r].st = "none"
           /\ runs[r].log = <<>>

\* C7: with no company email, Email Report shows the "not set" status,
\* never sets the active-action slot, does not acquire the client and
\* issues no tool call.
C7_NoEmailShortCircuit ==
    /\ \A r \in Runs :
          (runs[r].op = "email" /\ companyEmail = "")
          => /\ runs[r].pc = "done"
             /\ ~runs[r].rejected
             /\ runs[r].lastStatus = EmailNotSet
             /\ ~runs[r].setActive
             /\ ~runs[r].acquired
             /\ runs[r].log = <<>>
    /\ companyEmail = "" => activeAction # "email"

C7_Witness ==
    \E r \in Runs :
        /\ runs[r].op = "email"
        /\ companyEmail = ""
        /\ runs[r].pc = "done"
        /\ status = EmailNotSet

\* C8: at most one client is ever connected, and all invocations of
\* getMcpClient that have resolved returned the same client.
C8_SingleClient ==
    /\ Cardinality(connected) <= 1
    /\ \A c, d \in CallSlots :
          (calls[c].st = "resolved" /\ calls[d].st = "resolved")
          => calls[c].client = calls[d].client

\* C9: the draft always lists at least one action.
C9_AtLeastOneAction == Len(automation.actions) >= 1

\* C10: the ids of the draft's actions are pairwise distinct.
C10_DistinctActionIds ==
    \A i, j \in DOMAIN automation.actions :
        automation.actions[i].id = automation.actions[j].id => i = j

\* C11: a change of an action's type, to any type, leaves the targeted
\* action with the chosen type and an empty action_config.
C11_TypeChangeClearsConfig ==
    [][\A a \in IdInputs, v \in TypeInputs :
          handleActionChange(a, v) =>
             \A i \in DOMAIN automation.actions :
                automation.actions[i].id = a =>
                   /\ automation'.actions[i].action_type = v
                   /\ DOMAIN automation'.actions[i].action_config = {}]_vars

\* the stored action, which came with a subject, has been given another type
C11_Witness ==
    /\ existingAutomation = StoredA
    /\ Len(automation.actions) >= 1
    /\ automation.actions[1].id = 0
    /\ automation.actions[1].action_type = "webhook"
    /\ DOMAIN automation.actions[1].action_config = {}

SameListBut(a) ==
    /\ Len(automation'.actions) = Len(automation.actions)
    /\ \A i \in DOMAIN automation.actions :
          /\ automation'.actions[i].id = automation.actions[i].id
          /\ automation.actions[i].id # a
                => automation'.actions[i] = automation.actions[i]

\* C12: every change other than add-action and remove-action keeps the
\* action list at its length and order and leaves every action whose id is
\* not the targeted id as it was; a change that targets no action leaves
\* the whole list as it was.  (Each implication is written consequent
\* first.)
C12_ChangesKeepOtherActions ==
    [][/\ \/ automation'.actions = automation.actions
          \/ ~(\/ \E v \in NameInputs : handleFieldChange("name", v)
               \/ \E v \in TriggerTypes : handleFieldChange("trigger_type", v)
               \/ \E v \in BOOLEAN : handleFieldChange("is_enabled", v)
               \/ \E v \in StatusInputs : handleConfigChange("to_status", v))
       /\ \A a \in IdInputs :
             \/ SameListBut(a)
             \/ ~(\/ \E v \in TypeInputs : handleActionChange(a, v)
                  \/ \E v \in TextInputs, f \in {"url", "task_title", "email_subject"} :
                        handleActionConfigChange(a, f, v))]_vars

\* of two actions with different ids the second was given a title, the
\* first is still the default action
C12_Witness ==
    /\ mounted
    /\ Len(automation.actions) = 2
    /\ automation.actions[1] = EMPTY_AUTOMATION.actions[1]
    /\ automation.actions[2].id # automation.actions[1].id
    /\ DOMAIN automation.actions[2].action_config = {"task_title"}

C14_SubmitSavesOnce ==
    [][handleSubmit =>
          /\ onSaveCalls' = <<automation>>
          /\ onCancelCalls' = 0
          /\ automation' = automation
          /\ existingAutomation' = existingAutomation
          /\ mounted' = mounted]_vars

C14_Witness ==
    /\ mounted
    /\ onSaveCalls = <<automation>>
    /\ onCancelCalls = 0
    /\ automation.name = "Nightly"
    /\ Len(automation.actions) = 2

HasId(a) == "id" \in DOMAIN a

IdAsOpened(a) ==
    /\ HasId(a) <=> existingAutomation # NoAutomation
    /\ HasId(a) => a.id = existingAutomation.id

\* C15: the draft, and the payload handed to onSave, carries an id exactly
\* when the editor was opened with an existing automation, and then it is
\* that automation's id.
C15_IdAsOpened ==
    /\ mounted => IdAsOpened(automation)
    /\ \A i \in DOMAIN onSaveCalls : IdAsOpened(onSaveCalls[i])

C15_Witness ==
    /\ existingAutomation = StoredA
    /\ Len(onSaveCalls) = 1
    /\ onSaveCalls[1].id = 7
    /\ onSaveCalls[1].name = "Nightly"
    /\ Len(onSaveCalls[1].actions) = 2

\* C21: a change of the trigger type changes trigger_type only; the
\* trigger_config, a chosen to_status included, stays in the draft as it was
\* and is in the payload handed to onSave.
C21_TriggerChangeKeepsConfig ==
    [][/\ (/\ mounted /\ mounted'
           /\ existingAutomation' = existingAutomation
           /\ automation'.trigger_type # automation.trigger_type)
          => /\ DOMAIN automation' = DOMAIN automation
             /\ automation'.trigger_config = automation.trigger_config
             /\ \A k \in (DOMAIN automation) \ {"trigger_type"} :
                   automation'[k] = automation[k]
       /\ onSaveCalls' # <<>>
          => onSaveCalls'[1].trigger_config = automation.trigger_config
      ]_vars

C21_Witness ==
    /\ existingAutomation = NoAutomation
    /\ Len(onSaveCalls) = 1
    /\ onSaveCalls[1].trigger_type = "new_customer"
    /\ "to_status" \in DOMAIN onSaveCalls[1].trigger_config
    /\ automation.trigger_config = onSaveCalls[1].trigger_config

\* C22: the cache holds only a client whose connect() resolved; a rejected
\* connect() rejects its call and leaves the cache as it was, so a call made
\* while the cache is unset constructs and connects a new client; a set
\* cache is never set back to null.
C22_CacheOnlyConnected ==
    /\ [](/\ mcpClient # NoClient => mcpClient \in connected
          /\ \A c \in CallSlots :
                calls[c].st = "rejected"
                   => /\ calls[c].client \notin connected
                      /\ mcpClient # calls[c].client)
    /\ [][\A c \in CallSlots :
            /\ (calls[c].st = "connecting" /\ calls'[c].st = "rejected")
                  => mcpClient' = mcpClient
            /\ (calls[c].st = "none" /\ calls'[c].st # "none" /\ mcpClient = NoClient)
                  => /\ calls'[c].st = "connecting"
                     /\ calls'[c].client \notin 1 .. nClients
                     /\ calls'[c].client \in 1 .. nClients'
            /\ mcpClient # NoClient => mcpClient' # NoClient
      ]_vars

C22_Witness ==
    \E c, d \in CallSlots :
        /\ calls[c].st = "rejected"
        /\ calls[d].st = "resolved"
        /\ calls[d].client > calls[c].client
        /\ mcpClient = calls[d].client

\* a click that starts one of the four operations
Start ==
    \E r \in Runs :
        \/ handleBackupToDrive(r)
        \/ handleExportToSheets(r)
        \/ handleCreateDocReport(r)
        \/ handleEmailReport(r)

Quiet == activeAction = Null /\ status = ""

\* C23: when every remote call settles and the user stops starting
\* operations, activeAction becomes null and the status empty and both
\* stay so; put the other way round, either operations are started again
\* and again or the component ends up quiet for good.
C23_EventuallyQuiet == ([]<><<Start>>_vars) \/ (<>[]Quiet)

C23_Witness ==
    /\ Quiet
    /\ timers = 0
    /\ \E r \in Runs :
          /\ runs[r].pc = "done"
          /\ runs[r].lastStatus \in FailureMessages \cup CompleteMessages \cup {NoJobs, EmailNotSet}

\* C16: the exported row carries the customer's name, the quote unchanged,
\* and the two set counts rounded to two decimals with halves rounded up
\* (1.005 gives 1.01).
HalfUp(d) == (d + 5) \div 10

C16_RowRoundsHalfUp ==
    Len(sheetRow) = 1 =>
        /\ sheetRow[1].OpenCellSets = HalfUp(sheetJob.ocSets)
        /\ sheetRow[1].ClosedCellSets = HalfUp(sheetJob.ccSets)
        /\ sheetRow[1].QuoteAmount = sheetJob.finalQuote
        /\ \A n \in DOMAIN customers :
              customers[n].id = sheetJob.customerId =>
                  sheetRow[1].CustomerName = customers[n].name

\* C17: a status shown with duration 0 stays displayed until the running
\* operation sets its next status: while an operation is in flight the
\* status on display is the one that operation showed last, whatever timers
\* earlier messages have left pending.
C17_PersistentStatusStays ==
    \A r \in Runs : InFlight(r) => status = runs[r].lastStatus

\* a step in which the invocation traced in slot r returns
Finishes(r) == InFlight(r) /\ runs'[r].pc = "done"

AllResolved(run, call) ==
    /\ call.st = "resolved"
    /\ \A i \in DOMAIN run.log : run.log[i].st = "resolved"

\* C18: a run ends on a completion status, and closes the menu, only when
\* its client acquisition and all its tool calls resolved; a run with a
\* rejected step ends on its failure status, leaves isOpen as it was and
\* issues no further call, so a backup whose second file creation rejects
\* is reported as failed with the first creation resolved and in place.
C18_CompletionOnlyWhenAllResolved ==
    [][\A r \in Runs : Finishes(r) =>
          /\ (status' \in CompleteMessages \/ runs'[r].closedMenu)
                => /\ ~runs'[r].rejected
                   /\ AllResolved(runs'[r], calls'[r])
          /\ runs'[r].rejected
                => /\ status' = CatchMessage(runs[r].op)
                   /\ status' \notin CompleteMessages
                   /\ ~runs'[r].closedMenu
                   /\ isOpen' = isOpen
                   /\ Len(runs'[r].log) = Len(runs[r].log)
                   /\ \A i \in 1 .. (Len(runs[r].log) - 1) :
                         runs'[r].log[i] = runs[r].log[i]
          /\ ~AllResolved(runs'[r], calls'[r])
                => status' \notin CompleteMessages /\ isOpen' = isOpen
      ]_vars

C18_Witness ==
    \E r \in Runs :
        /\ runs[r].op = "backup"
        /\ runs[r].pc = "done"
        /\ runs[r].rejected
        /\ Len(runs[r].log) = 2
        /\ runs[r].log[1].st = "resolved"
        /\ runs[r].log[2].st = "rejected"
        /\ status = BackupFailed
        /\ isOpen

\* C19: within one run nothing is retried and nothing follows a rejection:
\* the accessor is called at most once, every tool call is issued at most
\* once, a rejected call is the run's last and ends it, and a rejected
\* acquisition leaves the run without any tool call.
C19_NoRetry ==
    \A r \in Runs :
        LET log == runs[r].log IN
        /\ runs[r].accessorCalls <= 1
        /\ \A i, j \in DOMAIN log :
              i # j => <<log[i].name, log[i].title>> # <<log[j].name, log[j].title>>
        /\ \A i \in DOMAIN log :
              log[i].st = "rejected" => i = Len(log) /\ runs[r].pc = "done"
        /\ runs[r].rejected => runs[r].pc = "done"
        /\ (runs[r].acquired /\ calls[r].st = "rejected" /\ runs[r].pc = "done")
              => log = <<>>
        /\ (runs[r].op = "backup" /\ Len(log) >= 1 /\ log[1].st = "rejected")
              => Len(log) = 1

C19_Witness ==
    \E r \in Runs :
        /\ runs[r].op = "backup"
        /\ runs[r].pc = "done"
        /\ runs[r].accessorCalls = 1
        /\ Len(runs[r].log) = 1
        /\ runs[r].log[1].title = "customers-backup"
        /\ runs[r].log[1].st = "rejected"

\* C20: the Recent Jobs section lists min(5, number of jobs) jobs, and they
\* are the ones with the latest creation timestamps.
C20_ListsLatestFive ==
    Len(reportRecent) = 1 =>
        LET listed == { reportRecent[1][i] : i \in DOMAIN reportRecent[1] }
            given  == { reportJobs[i] : i \in DOMAIN reportJobs }
        IN /\ Len(reportRecent[1]) = IF Len(reportJobs) < 5 THEN Len(reportJobs) ELSE 5
           /\ listed \subseteq given
           /\ \A x \in listed, y \in given \ listed : x.createdAt > y.createdAt

====
